---- MODULE Spec2Model ----
(***************************************************************************)
(* The request card of src/components/RequestList/RequestItem/index.tsx:   *)
(* the RequestItem component, its RequestItemError fallback, the two SWR   *)
(* keys it reads (title metadata, its own request record), the viewport    *)
(* observer that arms the title fetch, and the calls its buttons issue.    *)
(***************************************************************************)
EXTENDS Naturals, FiniteSets

VARIABLES
    user,          \* useUser(): the signed-in user, or NoUser
    request,       \* the request prop: what identifies the request
    requestData,   \* data of useSWR(`/api/v1/request/${request.id}`)
    intersecting,  \* environment: the card's element is inside the viewport
    entered,       \* the element has been inside the viewport at some time
    inView,        \* useInView({triggerOnce: true}).inView
    triggers,      \* times the title key went from null to the url
    titleFetching, \* the title GET armed by the key is in flight
    titleData,     \* data of the title key is defined
    titleError,    \* error of the title key is defined
    isRetrying,    \* useState(false): retry in progress
    showEditModal, \* useState(false): the edit modal is open
    inflight,      \* calls awaiting their response, by endpoint
    fetchLatest,   \* the most recently started record GET is in flight
    fetchStale,    \* record GETs in flight that a later GET or mutate superseded
    fx             \* what the last step did (its effects, for observation)

vars == << user, request, requestData, intersecting, entered, inView, triggers,
           titleFetching, titleData, titleError, isRetrying, showEditModal,
           inflight, fetchLatest, fetchStale, fx >>

\* Model bounds.
MaxInFlight == 2
MaxTriggers == 2

\* The values of MediaRequestStatus, MediaStatus and the request type that
\* the component compares against (imports at lines 15-19).
RequestStatuses == {"pending", "approved", "declined"}
MediaStatuses == {"unknown", "available"}
MediaTypes == {"movie", "tv"}
UserIds == {1, 2}
Permissions == {"MANAGE_REQUESTS", "REQUEST_ADVANCED"}

NoUser == [anonymous |-> TRUE]
NoRecord == [absent |-> TRUE]
NoPayload == [nothing |-> TRUE]

\* useUser().user: nobody, or user 1 with some permission set.
Users ==
    {NoUser} \cup {[id |-> 1, permissions |-> P] : P \in SUBSET Permissions}

\* The request prop, restricted to what stays the same in every answer of the
\* service about this request.
RequestProps ==
    [type : MediaTypes, is4k : BOOLEAN, requestedBy : [id : UserIds],
     media : [id : {1}]]

\* The records of the request `req` (MediaRequest, restricted to the fields
\* the card's decisions read): any request status and any media status on
\* either quality track.
RecordsOf(req) ==
    {[status |-> s, type |-> req.type, is4k |-> req.is4k,
      requestedBy |-> req.requestedBy,
      media |-> [id |-> req.media.id, status |-> m, status4k |-> n]] :
        s \in RequestStatuses, m \in MediaStatuses, n \in MediaStatuses}

\* What the service may answer for this request: nothing, or a record of it.
Payloads == {NoRecord} \cup RecordsOf(request)

\* Endpoints the card calls and awaits.
ModifyTypes == {"approve", "decline"}
Endpoints == ModifyTypes \cup {"retry", "delete", "deleteMedia"}

\* useUser().hasPermission
hasPermission(p) == user # NoUser /\ p \in user.permissions

\* user?.id (0 stands for undefined: no requester has it)
UserId == IF user = NoUser THEN 0 ELSE user.id

\* The title key is `inView ? url : null`: with a null key SWR returns neither
\* data nor error.
title == inView /\ titleData
error == inView /\ titleError

\* The three returns of RequestItem.
Rendered ==
    IF ~title /\ ~error THEN "placeholder"
    ELSE IF ~title \/ requestData = NoRecord THEN "error"
    ELSE "card"

\* Variant of MediaStatusOf that reads the standard track whatever is4k says.
MediaStatusOf_ignores4k(rd) == rd.media["status"]

\* requestData.media[requestData.is4k ? 'status4k' : 'status']
MediaStatusOf(rd) == rd.media[IF rd.is4k THEN "status4k" ELSE "status"]

\* requestData?.media.id (0 stands for undefined)
mediaId == IF requestData = NoRecord THEN 0 ELSE requestData.media.id

ShowRetry ==
    /\ Rendered = "card"
    /\ MediaStatusOf(requestData) = "unknown"
    /\ requestData.status # "declined"
    /\ hasPermission("MANAGE_REQUESTS")

ShowDelete ==
    /\ Rendered = "card"
    /\ requestData.status # "pending"
    /\ hasPermission("MANAGE_REQUESTS")

\* Variant of ShowApproveDecline without the permission check.
ShowApproveDecline_noPermission ==
    /\ Rendered = "card"
    /\ requestData.status = "pending"

\* Variant of ShowApproveDecline that only hides the pair once declined.
ShowApproveDecline_notDeclined ==
    /\ Rendered = "card"
    /\ requestData.status # "declined"
    /\ hasPermission("MANAGE_REQUESTS")

ShowApproveDecline ==
    /\ Rendered = "card"
    /\ requestData.status = "pending"
    /\ hasPermission("MANAGE_REQUESTS")

\* Variant of ShowEdit that asks the requester for the advanced permission
\* whatever the request type.
ShowEdit_noTvCase ==
    /\ Rendered = "card"
    /\ requestData.status = "pending"
    /\ \/ hasPermission("MANAGE_REQUESTS")
       \/ /\ requestData.requestedBy.id = UserId
          /\ hasPermission("REQUEST_ADVANCED")

ShowEdit ==
    /\ Rendered = "card"
    /\ requestData.status = "pending"
    /\ \/ hasPermission("MANAGE_REQUESTS")
       \/ /\ requestData.requestedBy.id = UserId
          /\ \/ requestData.type = "tv"
             \/ hasPermission("REQUEST_ADVANCED")

\* Variant of ShowCancel that is offered to a requester who manages requests.
ShowCancel_managerToo ==
    /\ Rendered = "card"
    /\ requestData.status = "pending"
    /\ requestData.requestedBy.id = UserId

ShowCancel ==
    /\ Rendered = "card"
    /\ requestData.status = "pending"
    /\ ~hasPermission("MANAGE_REQUESTS")
    /\ requestData.requestedBy.id = UserId

\* Variant of ShowErrorDelete that does not look at the media id.
ShowErrorDelete_noMediaId ==
    /\ Rendered = "error"
    /\ hasPermission("MANAGE_REQUESTS")

\* RequestItemError's delete button
ShowErrorDelete ==
    /\ Rendered = "error"
    /\ hasPermission("MANAGE_REQUESTS")
    /\ mediaId # 0

\* Variant of RetryEnabled: the button is never disabled.
RetryEnabled_always == TRUE

\* disabled={isRetrying}
RetryEnabled == ~isRetrying

\* Variant of triggerOnce: the observer keeps reporting.
triggerOnce_off == FALSE

\* useInView's option
triggerOnce == TRUE

\* ---- calls in flight ----------------------------------------------------

Gets == (IF fetchLatest THEN 1 ELSE 0) + fetchStale

Calls ==
    inflight["approve"] + inflight["decline"] + inflight["retry"]
        + inflight["delete"] + inflight["deleteMedia"]

Total == Calls + Gets

Post(endpoint) == [inflight EXCEPT ![endpoint] = @ + 1]
Settle(endpoint) == [inflight EXCEPT ![endpoint] = @ - 1]

\* What a step did besides its writes to the card's state:
\*   op       the handler or continuation that ran
\*   ok       for a response: the call succeeded
\*   calls    calls the step issued
\*   refresh  the step started a GET of the record key
\*   list     the step called revalidateList()
\*   toast    the step called addToast(failedretry)
\*   latest   for a record GET's response: no later GET had started
\*   payload  for a successful response carrying a record: that record
Did(op) ==
    [op |-> op, ok |-> TRUE, calls |-> 0, refresh |-> FALSE, list |-> FALSE,
     toast |-> FALSE, latest |-> FALSE, payload |-> NoPayload]
Idle == Did("idle")

\* SWR starts a GET of the record key: any GET still in flight is superseded.
StartFetch ==
    /\ fetchStale' = fetchStale + (IF fetchLatest THEN 1 ELSE 0)
    /\ fetchLatest' = TRUE

NoFetch == UNCHANGED << fetchLatest, fetchStale >>

\* Variant of AcceptResponse that keeps whatever answer arrives.
AcceptResponse_any(isLatest) == TRUE

\* SWR keeps the response of a GET only when no later GET or mutate started.
AcceptResponse(isLatest) == isLatest

\* Variant of ModifyRefresh that never refreshes.
ModifyRefresh_never(ok) == FALSE

\* modifyRequest: `if (response) revalidate()` after the awaited POST, which
\* throws instead of returning when the POST fails.
ModifyRefresh(ok) == ok

\* Variant of RetryFinally that clears the flag on the success path only.
RetryFinally_successOnly(ok) == ~ok

\* retryRequest: the catch block toasts, the finally block clears the flag.
RetryToast(ok) == ~ok
RetryFinally(ok) == FALSE

\* deleteRequest (both of them): revalidateList() after the awaited DELETE.
DeleteRevalidates(ok) == ok

title_view == << intersecting, entered, inView, triggers, titleFetching,
                 titleData, titleError >>
props == << user, request >>

\* ---- initial state ------------------------------------------------------

Init ==
    /\ user \in Users
    /\ request \in RequestProps
    /\ requestData \in RecordsOf(request)
    /\ intersecting = FALSE
    /\ entered = FALSE
    /\ inView = FALSE
    /\ triggers = 0
    /\ titleFetching = FALSE
    /\ titleData = FALSE
    /\ titleError = FALSE
    /\ isRetrying = FALSE
    /\ showEditModal = FALSE
    /\ inflight = [e \in Endpoints |-> 0]
    /\ fetchLatest = FALSE
    /\ fetchStale = 0
    /\ fx = Idle

\* ---- viewport and title key ---------------------------------------------

\* The observer reports the element inside the viewport. While it observes
\* (inView still false) inView becomes true and the key becomes the url, which
\* makes SWR fetch the title.
EnterViewport ==
    /\ ~intersecting
    /\ intersecting' = TRUE
    /\ entered' = TRUE
    /\ IF ~inView
       THEN /\ triggers < MaxTriggers
            /\ inView' = TRUE
            /\ triggers' = triggers + 1
            /\ titleFetching' = TRUE
       ELSE UNCHANGED << inView, triggers, titleFetching >>
    /\ fx' = Idle
    /\ UNCHANGED << props, requestData, titleData, titleError, isRetrying,
                    showEditModal, inflight, fetchLatest, fetchStale >>

\* The element leaves the viewport. With triggerOnce the observer was dropped
\* at the first entry and inView stays true.
ExitViewport ==
    /\ intersecting
    /\ intersecting' = FALSE
    /\ inView' = IF triggerOnce THEN inView ELSE FALSE
    /\ fx' = Idle
    /\ UNCHANGED << props, requestData, entered, triggers, titleFetching,
                    titleData, titleError, isRetrying, showEditModal,
                    inflight, fetchLatest, fetchStale >>

TitleSettled(ok) ==
    /\ titleData' = (ok \/ titleData)
    /\ titleError' = ~ok

\* The response of the title GET.
TitleResponse ==
    /\ titleFetching
    /\ titleFetching' = FALSE
    /\ \E ok \in BOOLEAN : TitleSettled(ok)
    /\ fx' = Idle
    /\ UNCHANGED << props, requestData, intersecting, entered, inView,
                    triggers, isRetrying, showEditModal, inflight,
                    fetchLatest, fetchStale >>

\* SWR revalidates the title key on its own (focus, reconnect, retry after an
\* error); a failed revalidation keeps the data it has.
TitleRevalidated ==
    /\ inView
    /\ ~titleFetching
    /\ \E ok \in BOOLEAN : TitleSettled(ok)
    /\ fx' = Idle
    /\ UNCHANGED << props, requestData, intersecting, entered, inView,
                    triggers, titleFetching, isRetrying, showEditModal,
                    inflight, fetchLatest, fetchStale >>

\* ---- record key ---------------------------------------------------------

\* SWR revalidates the record key on its own (mount, focus, reconnect, retry
\* after an error), deduplicated against a GET in flight.
Revalidate ==
    /\ ~fetchLatest
    /\ Total < MaxInFlight
    /\ StartFetch
    /\ fx' = Idle
    /\ UNCHANGED << props, requestData, title_view, isRetrying, showEditModal,
                    inflight >>

\* The response of a record GET, the latest one or a superseded one.
FetchResponse ==
    \E isLatest \in BOOLEAN, ok \in BOOLEAN :
      \E payload \in IF ok THEN Payloads ELSE {NoPayload} :
        /\ IF isLatest THEN fetchLatest ELSE fetchStale > 0
        /\ IF isLatest
           THEN fetchLatest' = FALSE /\ UNCHANGED fetchStale
           ELSE fetchStale' = fetchStale - 1 /\ UNCHANGED fetchLatest
        /\ requestData' =
              IF ok /\ AcceptResponse(isLatest) THEN payload ELSE requestData
        /\ fx' = [Did("fetchResponse") EXCEPT
                      !.ok = ok, !.latest = isLatest, !.payload = payload]
        /\ UNCHANGED << props, title_view, isRetrying, showEditModal,
                        inflight >>

\* ---- approve / decline --------------------------------------------------

ModifyRequest ==
    \E type \in ModifyTypes :
        /\ ShowApproveDecline
        /\ Total < MaxInFlight
        /\ inflight' = Post(type)
        /\ fx' = [Did("modifyRequest") EXCEPT !.calls = Calls' - Calls]
        /\ UNCHANGED << props, requestData, title_view, isRetrying,
                        showEditModal, fetchLatest, fetchStale >>

ModifyResponse ==
    \E type \in ModifyTypes, ok \in BOOLEAN :
        /\ inflight[type] > 0
        /\ inflight' = Settle(type)
        /\ IF ModifyRefresh(ok) THEN StartFetch ELSE NoFetch
        /\ fx' = [Did("modifyResponse") EXCEPT
                      !.ok = ok, !.refresh = Gets' > Gets]
        /\ UNCHANGED << props, requestData, title_view, isRetrying,
                        showEditModal >>

\* ---- retry --------------------------------------------------------------

RetryRequest ==
    /\ ShowRetry
    /\ RetryEnabled
    /\ Total < MaxInFlight
    /\ isRetrying' = TRUE
    /\ inflight' = Post("retry")
    /\ fx' = [Did("retryRequest") EXCEPT !.calls = Calls' - Calls]
    /\ UNCHANGED << props, requestData, title_view, showEditModal,
                    fetchLatest, fetchStale >>

\* revalidate(result.data) writes the payload to the record key and starts a
\* GET of it.
RetryResponse ==
    \E ok \in BOOLEAN :
      \E payload \in IF ok THEN Payloads ELSE {NoPayload} :
        /\ inflight["retry"] > 0
        /\ inflight' = Settle("retry")
        /\ IF ok
           THEN requestData' = payload /\ StartFetch
           ELSE UNCHANGED requestData /\ NoFetch
        /\ isRetrying' = RetryFinally(ok)
        /\ fx' = [Did("retryResponse") EXCEPT
                      !.ok = ok, !.refresh = Gets' > Gets,
                      !.toast = RetryToast(ok), !.payload = payload]
        /\ UNCHANGED << props, title_view, showEditModal >>

\* ---- delete / cancel ----------------------------------------------------

DeleteRequest ==
    /\ ShowDelete \/ ShowCancel
    /\ Total < MaxInFlight
    /\ inflight' = Post("delete")
    /\ fx' = [Did("deleteRequest") EXCEPT !.calls = Calls' - Calls]
    /\ UNCHANGED << props, requestData, title_view, isRetrying,
                    showEditModal, fetchLatest, fetchStale >>

DeleteResponse ==
    \E ok \in BOOLEAN :
        /\ inflight["delete"] > 0
        /\ inflight' = Settle("delete")
        /\ fx' = [Did("deleteResponse") EXCEPT
                      !.ok = ok, !.list = DeleteRevalidates(ok)]
        /\ UNCHANGED << props, requestData, title_view, isRetrying,
                        showEditModal, fetchLatest, fetchStale >>

\* RequestItemError.deleteRequest
DeleteMedia ==
    /\ ShowErrorDelete
    /\ Total < MaxInFlight
    /\ inflight' = Post("deleteMedia")
    /\ fx' = [Did("deleteMedia") EXCEPT !.calls = Calls' - Calls]
    /\ UNCHANGED << props, requestData, title_view, isRetrying,
                    showEditModal, fetchLatest, fetchStale >>

DeleteMediaResponse ==
    \E ok \in BOOLEAN :
        /\ inflight["deleteMedia"] > 0
        /\ inflight' = Settle("deleteMedia")
        /\ fx' = [Did("deleteMediaResponse") EXCEPT
                      !.ok = ok, !.list = DeleteRevalidates(ok)]
        /\ UNCHANGED << props, requestData, title_view, isRetrying,
                        showEditModal, fetchLatest, fetchStale >>

\* ---- edit modal ---------------------------------------------------------

OpenEdit ==
    /\ ShowEdit
    /\ ~showEditModal
    /\ showEditModal' = TRUE
    /\ fx' = Did("editRequest")
    /\ UNCHANGED << props, requestData, title_view, isRetrying, inflight,
                    fetchLatest, fetchStale >>

\* RequestModal's onCancel
CancelEdit ==
    /\ Rendered = "card"
    /\ showEditModal
    /\ showEditModal' = FALSE
    /\ fx' = Idle
    /\ UNCHANGED << props, requestData, title_view, isRetrying, inflight,
                    fetchLatest, fetchStale >>

\* RequestModal's onComplete
CompleteEdit ==
    /\ Rendered = "card"
    /\ showEditModal
    /\ showEditModal' = FALSE
    /\ fx' = [Did("editComplete") EXCEPT !.list = TRUE]
    /\ UNCHANGED << props, requestData, title_view, isRetrying, inflight,
                    fetchLatest, fetchStale >>

Next ==
    \/ EnterViewport
    \/ ExitViewport
    \/ TitleResponse
    \/ TitleRevalidated
    \/ Revalidate
    \/ FetchResponse
    \/ ModifyRequest
    \/ ModifyResponse
    \/ RetryRequest
    \/ RetryResponse
    \/ DeleteRequest
    \/ DeleteResponse
    \/ DeleteMedia
    \/ DeleteMediaResponse
    \/ OpenEdit
    \/ CancelEdit
    \/ CompleteEdit

Spec == Init /\ [][Next]_vars

\* ---- properties ---------------------------------------------------------

\* What the claims call "the user has permission p", "the user is the
\* requester" and "the fully rendered card", on the state itself.
Has(p) == user # NoUser /\ p \in user.permissions
IsRequester == user # NoUser /\ requestData.requestedBy.id = user.id
FullCard == inView /\ titleData /\ requestData # NoRecord

\* C1: in the fully rendered card (title loaded, request record present) the
\* Approve/Decline pair is visible if and only if the displayed request status
\* is pending and the user has the manage-requests permission, whatever the
\* media status, the request type, the ownership and the other permissions.
C1_ApproveDeclineIff ==
    FullCard =>
        (ShowApproveDecline <=>
            (requestData.status = "pending" /\ Has("MANAGE_REQUESTS")))

\* The pair is shown to a manager who is not the requester and holds no other
\* permission.
C1_Witness ==
    /\ FullCard
    /\ ShowApproveDecline
    /\ ~IsRequester
    /\ user.permissions = {"MANAGE_REQUESTS"}

\* C5: in the fully rendered card the Retry button is visible if and only if
\* the media status of the quality track selected by is4k (status4k when is4k,
\* status otherwise) is unknown, the request status is not declined and the
\* user has the manage-requests permission.
C5_RetryIff ==
    FullCard =>
        (ShowRetry <=>
            /\ (IF requestData.is4k THEN requestData.media.status4k
                ELSE requestData.media.status) = "unknown"
            /\ requestData.status # "declined"
            /\ Has("MANAGE_REQUESTS"))

\* Retry is shown for a 4k request whose 4k track is unknown while its
\* standard track is not.
C5_Witness ==
    /\ FullCard
    /\ ShowRetry
    /\ requestData.is4k
    /\ requestData.media.status # "unknown"

\* C6: in the fully rendered card the Delete confirm button is visible exactly
\* when the request status is not pending and the user has manage-requests
\* permission, and the Cancel button exactly when the status is pending, the
\* user lacks manage-requests permission and is the requester; in no state
\* are both visible.
C6_DeleteCancel ==
    /\ FullCard =>
        /\ ShowDelete <=>
              (requestData.status # "pending" /\ Has("MANAGE_REQUESTS"))
        /\ ShowCancel <=>
              /\ requestData.status = "pending"
              /\ ~Has("MANAGE_REQUESTS")
              /\ IsRequester
    /\ ~(ShowDelete /\ ShowCancel)

\* Cancel is shown to the requester of a pending request.
C6_Witness == FullCard /\ ShowCancel /\ ~ShowDelete

\* C7: in the fully rendered card the Edit button is visible if and only if
\* the request status is pending and (the user has manage-requests
\* permission, or the user is the requester and the request is a tv request
\* or the user has the advanced-request permission).
C7_EditIff ==
    FullCard =>
        (ShowEdit <=>
            /\ requestData.status = "pending"
            /\ \/ Has("MANAGE_REQUESTS")
               \/ /\ IsRequester
                  /\ \/ requestData.type = "tv"
                     \/ Has("REQUEST_ADVANCED"))

\* Edit is shown for a pending tv request to its requester, who has neither
\* the advanced-request nor the manage-requests permission.
C7_Witness ==
    /\ FullCard
    /\ ShowEdit
    /\ requestData.type = "tv"
    /\ IsRequester
    /\ user.permissions = {}

\* C2 as stated: every approve or decline issues exactly one POST, and the
\* completion of that POST starts a refresh of the card's own record whatever
\* its outcome.
C2_Original ==
    /\ fx.op = "modifyRequest" =>
          fx.calls = 1 /\ inflight["approve"] + inflight["decline"] >= 1
    /\ fx.op = "modifyResponse" => fx.refresh

\* C2, amended: every approve or decline issues exactly one POST (and nothing
\* else), and the completion of that POST starts a refresh of the card's own
\* record exactly when the POST succeeded.
C2_RefreshOnSuccess ==
    /\ fx.op = "modifyRequest" =>
          /\ fx.calls = 1
          /\ inflight["approve"] + inflight["decline"] >= 1
          /\ ~fx.refresh
    /\ fx.op = "modifyResponse" =>
          /\ fx.calls = 0
          /\ fx.refresh <=> fx.ok

\* An approve or decline POST has succeeded and the refresh it started is in
\* flight.
C2_Witness ==
    fx.op = "modifyResponse" /\ fx.ok /\ fx.refresh /\ fetchLatest

\* C3: right after any retry invocation isRetrying is true; once the retry
\* POST has completed isRetrying is false on the success path and on the
\* failure path, and the failure notification was shown exactly when the POST
\* failed.
C3_RetryFlag ==
    /\ fx.op = "retryRequest" => isRetrying /\ inflight["retry"] >= 1
    /\ fx.op = "retryResponse" =>
          /\ ~isRetrying
          /\ fx.toast <=> ~fx.ok

\* A retry POST has failed: the flag is clear and the notification shown.
C3_Witness ==
    fx.op = "retryResponse" /\ ~fx.ok /\ fx.toast /\ ~isRetrying

\* C4: the card starts a status change (approve, decline) only on a request
\* whose displayed status is pending, never on one displayed as approved or
\* declined; retry is only started on a request not displayed as declined
\* and edit only on one displayed as pending.
C4_OnlyFromPending ==
    /\ fx.op = "modifyRequest" =>
          requestData # NoRecord /\ requestData.status = "pending"
    /\ fx.op = "retryRequest" =>
          requestData # NoRecord /\ requestData.status # "declined"
    /\ fx.op = "editRequest" =>
          requestData # NoRecord /\ requestData.status = "pending"

\* An approve or decline has just been issued on a request displayed as
\* pending.
C4_Witness ==
    /\ fx.op = "modifyRequest"
    /\ requestData.status = "pending"
    /\ inflight["approve"] + inflight["decline"] >= 1

\* None of the request card's controls is rendered.
NoCardControls ==
    ~ShowRetry /\ ~ShowDelete /\ ~ShowApproveDecline /\ ~ShowEdit /\ ~ShowCancel

\* What C8 says of the error card once it is rendered: none of the request
\* card's controls, the media delete action exactly for a manager when the
\* media id is resolvable, and a DELETE of the media issued by it.
C8_ErrorCardControls ==
    /\ Rendered = "error" =>
          /\ NoCardControls
          /\ ShowErrorDelete <=>
                (Has("MANAGE_REQUESTS") /\ requestData # NoRecord)
    /\ ShowErrorDelete => Rendered = "error"
    /\ fx.op = "deleteMedia" =>
          fx.calls = 1 /\ inflight["deleteMedia"] >= 1 /\ ~fx.list

\* C8 as stated: whenever the title fetch has failed or the request record
\* (and with it the media link) is absent, the error card is rendered; on it
\* the delete action is shown iff the user manages requests and a media id is
\* resolvable, and invoking it issues the DELETE, followed by a list
\* revalidation.
C8_Original ==
    /\ (inView /\ titleError) \/ requestData = NoRecord => Rendered = "error"
    /\ C8_ErrorCardControls
    /\ fx.op = "deleteMediaResponse" /\ fx.ok => fx.list

\* C8, amended: the error card is rendered exactly when the title fetch has
\* failed and no title data is held, or title data is held and the request
\* record is absent; on it none of the request card's controls is shown, the
\* delete action is shown iff the user manages requests and a media id is
\* resolvable, and invoking it issues one DELETE on the media id, followed by
\* a list revalidation exactly when that DELETE succeeded.
C8_ErrorCard ==
    /\ Rendered = "error" <=>
          \/ inView /\ titleError /\ ~titleData
          \/ inView /\ titleData /\ requestData = NoRecord
    /\ C8_ErrorCardControls
    /\ fx.op = "deleteMediaResponse" => (fx.list <=> fx.ok)

\* The media delete of the error card has succeeded and revalidated the list.
C8_Witness ==
    /\ fx.op = "deleteMediaResponse"
    /\ fx.ok
    /\ fx.list
    /\ Rendered = "error"

\* C9 as stated: once every response has arrived, the card's record is the
\* payload of the response received last.
C9_Original ==
    fx.op \in {"fetchResponse", "retryResponse"} /\ fx.ok /\ Total = 0 =>
        requestData = fx.payload

\* C9, amended: the refresh is "last request wins". A successful retry sets
\* the record to its payload; the successful answer of a record GET sets the
\* record to its payload when no later GET or retry write has started since
\* that GET started, and otherwise (superseded, or failed) leaves the record
\* as it is, in every interleaving of the responses.
C9_LastRequestWins ==
    [][ /\ fx'.op = "retryResponse" /\ fx'.ok =>
              requestData' = fx'.payload /\ fetchLatest'
        /\ fx'.op = "retryResponse" /\ ~fx'.ok => requestData' = requestData
        /\ fx'.op = "fetchResponse" =>
              requestData' = IF fx'.ok /\ fx'.latest THEN fx'.payload
                             ELSE requestData
      ]_vars

\* The answer of a superseded GET arrived last, with a payload that is not
\* the card's record, and nothing is in flight any more.
C9_Witness ==
    /\ fx.op = "fetchResponse"
    /\ fx.ok
    /\ ~fx.latest
    /\ Total = 0
    /\ requestData # fx.payload

\* C10: the title fetch is not issued before the card has entered the
\* viewport, is triggered by the first entry and by nothing later (exits and
\* re-entries included), and until the title has loaded or failed the card
\* renders the placeholder, with no control.
C10_TitleFetchOnce ==
    /\ triggers = IF entered THEN 1 ELSE 0
    /\ ~entered => ~titleFetching /\ ~titleData /\ ~titleError
    /\ titleFetching => ~titleData /\ ~titleError
    /\ ~titleData /\ ~titleError =>
          Rendered = "placeholder" /\ NoCardControls /\ ~ShowErrorDelete

\* The card has left the viewport after its title loaded: the fetch was
\* triggered once.
C10_Witness ==
    /\ entered
    /\ ~intersecting
    /\ titleData
    /\ triggers = 1
    /\ Rendered = "card"

\* C11: at most one retry POST of the card is in flight at any time: isRetrying
\* is true exactly while a retry POST is in flight, and while it is true the
\* Retry button is disabled, so no second retryRequest can start before the
\* previous retry call has completed and reset the flag.
C11_OneRetryInFlight ==
    /\ inflight["retry"] <= 1
    /\ isRetrying <=> inflight["retry"] = 1
    /\ isRetrying => ~(ShowRetry /\ RetryEnabled)

\* A retry POST is in flight while the Retry button is still rendered: the
\* button is there and disabled.
C11_Witness ==
    /\ inflight["retry"] = 1
    /\ isRetrying
    /\ ShowRetry
    /\ ~RetryEnabled

====
